---------------------------- MODULE Spec2Model ----------------------------
(***************************************************************************)
(* AntRoit (AntRoit/jni/AntRoit.cpp): the native side of an Android demo.  *)
(* The host application calls three bridge functions, init(width, height), *)
(* step(time) and touch(x, y).  The module models the global state of the  *)
(* translation unit and one action per bridge function.                    *)
(*                                                                         *)
(* The code works on IEEE-754 binary32 values (C++ float).  They are      *)
(* modelled bit-exactly: a float is a record [m, e] standing for m * 2^e   *)
(* with 2^23 <= |m| < 2^24 (or m = 0, e = 0), and every operation rounds   *)
(* to nearest, ties to even, as the hardware does.  No value the code      *)
(* computes is subnormal, infinite or NaN; the sign of a zero is dropped.  *)
(***************************************************************************)
EXTENDS Integers, Sequences, FiniteSets

-----------------------------------------------------------------------------
(* binary32 arithmetic *)

Abs(x) == IF x < 0 THEN -x ELSE x

Sgn(x) == IF x < 0 THEN -1 ELSE 1

RECURSIVE BitLen(_)
BitLen(n) == IF n = 0 THEN 0 ELSE 1 + BitLen(n \div 2)

FZero == [m |-> 0, e |-> 0]

(* sign * q * 2^e for a rounded significand q <= 2^24 *)
Carry(sign, q, e) ==
    IF q = 2^24 THEN [m |-> sign * 2^23, e |-> e + 1]
    ELSE [m |-> sign * q, e |-> e]

(* round to nearest, ties to even: q is the kept part, r the part cut    *)
(* off and half the weight of half a unit of q                           *)
RoundUp(q, r, half) ==
    IF r > half \/ (r = half /\ q % 2 = 1) THEN q + 1 ELSE q

(* The float nearest to sign * a * 2^e, where a > 0 has n bits *)
RoundBits(sign, a, n, e) ==
    IF n <= 24
    THEN [m |-> sign * a * 2^(24 - n), e |-> e - (24 - n)]
    ELSE Carry(sign,
               RoundUp(a \div 2^(n - 24), a % 2^(n - 24), 2^(n - 25)),
               e + (n - 24))

(* The float nearest to the integer i * 2^e (|i| < 2^31) *)
RoundF(i, e) ==
    IF i = 0 THEN FZero ELSE RoundBits(Sgn(i), Abs(i), BitLen(Abs(i)), e)

(* static_cast<float>(int) *)
IntToFloat(i) == RoundF(i, 0)

FNeg(x) == [m |-> -x.m, e |-> x.e]

(* t with a sticky low bit: odd whenever something was cut off *)
Jam(t, r) == IF r # 0 /\ t % 2 = 0 THEN t + 1 ELSE t

(* a > 0 shifted right by sh bits, what is shifted out kept as a sticky bit *)
ShiftRightSticky(a, sh) ==
    IF sh >= 25 THEN 1 ELSE Jam(a \div 2^sh, a % 2^sh)

(* hi + lo for hi.e >= lo.e, both nonzero.  lo is aligned to six guard    *)
(* bits below hi; the sticky bit decides the rounding as the full sum     *)
(* would.                                                                 *)
AddAligned(hi, lo) ==
    IF hi.e - lo.e <= 6
    THEN RoundF(hi.m * 2^(hi.e - lo.e) + lo.m, lo.e)
    ELSE RoundF(hi.m * 64
                  + Sgn(lo.m) * ShiftRightSticky(Abs(lo.m), hi.e - lo.e - 6),
                hi.e - 6)

(* x + y in float *)
FAdd(x, y) ==
    IF x.m = 0 THEN y
    ELSE IF y.m = 0 THEN x
    ELSE IF x.e >= y.e THEN AddAligned(x, y)
    ELSE AddAligned(y, x)

FSub(x, y) == FAdd(x, FNeg(y))

FLess(x, y) == FSub(x, y).m < 0

FGeq(x, y) == ~FLess(x, y)

(* std::min(a, b): b if b < a, else a *)
FMin(a, b) == IF FLess(b, a) THEN b ELSE a

(* long division: q * 2^e is the quotient so far, r the remainder *)
RECURSIVE DivLoop(_, _, _, _)
DivLoop(q, r, e, d) ==
    IF q >= 2^23 THEN [q |-> q, r |-> r, e |-> e]
    ELSE DivLoop(2 * q + (IF 2 * r >= d THEN 1 ELSE 0), (2 * r) % d, e - 1, d)

DivRound(sign, l, d) == Carry(sign, RoundUp(l.q, 2 * l.r, d), l.e)

(* x / d in float, for a divisor d that is a positive integer below 2^24 *)
FDivInt(x, d) ==
    IF x.m = 0 THEN FZero
    ELSE DivRound(Sgn(x.m), DivLoop(Abs(x.m) \div d, Abs(x.m) % d, x.e, d), d)

(* x * y in float.  The 48-bit product of the significands is formed    *)
(* from 12-bit halves: hh * 2^24 + mid * 2^12 + ll.                      *)
MulParts(a, b) ==
    [hh  |-> (a \div 4096) * (b \div 4096),
     mid |-> (a \div 4096) * (b % 4096) + (a % 4096) * (b \div 4096),
     ll  |-> (a % 4096) * (b % 4096)]

(* the product is MulHigh * 2^24 + (MulLow % 2^24) *)
MulLow(p) == (p.mid % 4096) * 4096 + p.ll

MulHigh(p) == p.hh + p.mid \div 4096 + MulLow(p) \div 2^24

(* the float nearest to sign * (h * 2^24 + l) * 2^e, 2^22 <= h < 2^24 *)
MulRound(sign, h, l, e) ==
    IF h >= 2^23
    THEN Carry(sign, RoundUp(h, l, 2^23), e + 24)
    ELSE Carry(sign, RoundUp(2 * h + l \div 2^23, l % 2^23, 2^22), e + 23)

MulWide(sign, p, e) == MulRound(sign, MulHigh(p), MulLow(p) % 2^24, e)

FMul(x, y) ==
    IF x.m = 0 \/ y.m = 0 THEN FZero
    ELSE MulWide(Sgn(x.m) * Sgn(y.m), MulParts(Abs(x.m), Abs(y.m)), x.e + y.e)

(* static_cast<int>(float): truncation towards zero, |x| < 2^31 *)
FloatToInt(x) ==
    IF x.e >= 0 THEN x.m * 2^x.e
    ELSE IF x.e <= -24 THEN 0
    ELSE Sgn(x.m) * (Abs(x.m) \div 2^(-x.e))

FOne == IntToFloat(1)

(* the bit pattern of a float, read as an int: sign, biased exponent,      *)
(* 23 fraction bits                                                        *)
FloatBits(x) ==
    IF x.m = 0 THEN 0
    ELSE IF x.m > 0 THEN (x.e + 150) * 8388608 + (x.m - 8388608)
    ELSE (((x.e + 150) * 8388608 + (-x.m - 8388608)) - 1073741824) - 1073741824

-----------------------------------------------------------------------------
(* Constants of the timing code *)

(* float step = 1.0f / 60.0f *)
step == FDivInt(IntToFloat(1), 60)

(* Variant of MaxFrameTime for the sensitivity runs:                       *)
(* a cap of 0.5 s instead.                                                 *)
MaxFrameTimeDouble == FDivInt(IntToFloat(1), 2)

(* the 0.25f that caps deltaTime in update *)
MaxFrameTime == FDivInt(IntToFloat(1), 4)

(* the 2.0f of the spawn test in update *)
SpawnInterval == IntToFloat(2)

(* A jlong is kept as [hi, lo], standing for hi * 2^31 + lo with          *)
(* 0 <= lo < 2^31, so that every number stays below 2^31.                 *)
JLong(hi, lo) == [hi |-> hi, lo |-> lo]

JLongLeq(a, b) == a.hi < b.hi \/ (a.hi = b.hi /\ a.lo <= b.lo)

(* update(int time) called with a jlong: the value is narrowed to its low *)
(* 32 bits, read as two's complement.                                     *)
JLongToInt(t) == IF t.hi % 2 = 0 THEN t.lo ELSE (t.lo - 2147483647) - 1

(* time / 1000.0f: the int is converted to float, then divided *)
MillisToSeconds(time) == FDivInt(IntToFloat(time), 1000)

-----------------------------------------------------------------------------
(* Random numbers.  std::default_random_engine is implementation-defined; *)
(* in libstdc++ it is std::minstd_rand0, the engine                        *)
(* x -> 16807 * x mod (2^31 - 1), seeded from std::random_device.  The     *)
(* model holds the engine state x, 1 <= x <= 2^31 - 2.                    *)

(* t mod (2^31 - 1) for -(2^31 - 1) < t < 2^31 - 1 *)
Wrap(t) == IF t < 0 THEN t + 2147483647 ELSE t

(* generator(): the next state, which is the value returned.  The product *)
(* is reduced by Schrage's method, 2^31 - 1 = 16807 * 127773 + 2836, so   *)
(* that no intermediate value exceeds 2^31.                                *)
NextRand(g) == Wrap(16807 * (g % 127773) - 2836 * (g \div 127773))

(* the state after n calls *)
RECURSIVE Skip(_, _)
Skip(g, n) == IF n = 0 THEN g ELSE Skip(NextRand(g), n - 1)

(* std::generate_canonical<float, 24> for one engine value: f is          *)
(* float(value - min()), divided by float(max() - min() + 1) = 2^31; a    *)
(* quotient of 1 is replaced by the float below 1.                        *)
CanonicalOf(f) ==
    IF f.m = 0 THEN FZero
    ELSE IF f.e - 31 >= -23 THEN [m |-> 2^24 - 1, e |-> -24]
    ELSE [m |-> f.m, e |-> f.e - 31]

Canonical(g) == CanonicalOf(IntToFloat(g - 1))

(* randomFloat(a, b)(generator), g being the value the engine returned:   *)
(* canonical * (b - a) + a                                                 *)
randomFloat(a, b, g) == FAdd(FMul(Canonical(g), FSub(b, a)), a)

-----------------------------------------------------------------------------
(* Shapes and bodies.  A shape is kept as the arguments its constructor   *)
(* got (floats) and the body it created; the world is the set of its live *)
(* bodies.                                                                 *)

(* b2World::CreateBody: a body not in the world yet *)
CreateBody(world, dynamic) ==
    LET id == CHOOSE n \in 1..(Cardinality(world) + 1) :
                  (\A b \in world : b.id # n)
                  /\ \A k \in 1..(n - 1) : \E b \in world : b.id = k
    IN  [id |-> id, type |-> IF dynamic THEN "b2_dynamicBody" ELSE "b2_staticBody"]

(* b2World::DestroyBody *)
DestroyBody(world, id) == {b \in world : b.id # id}

(* new Triangle(...) / new Rectangle(...): the shape, with its body created in world *)
NewShape(type, x, y, width, height, rotation, color, world, dynamic) ==
    [type        |-> type,
     body        |-> CreateBody(world, dynamic).id,
     dynamic     |-> dynamic,
     numVertices |-> IF type = "Triangle" THEN 3 ELSE 6,
     x |-> x, y |-> y, width |-> width, height |-> height,
     rotation |-> rotation, color |-> color]

(* shapes.push_back(new ...): the list and the world afterwards *)
PushShape(s, type, x, y, width, height, rotation, color, dynamic) ==
    LET b == CreateBody(s.world, dynamic)
    IN  [s EXCEPT !.shapes = Append(s.shapes,
                      NewShape(type, x, y, width, height, rotation, color,
                               s.world, dynamic)),
                  !.world = s.world \cup {b}]

(* Variant of ShapeDtor for the sensitivity runs:                          *)
(* a destructor that leaves the body in the world.                         *)
ShapeDtorLeak(world, shape) == world

(* Shape::~Shape: world.DestroyBody(body) *)
ShapeDtor(world, shape) == DestroyBody(world, shape.body)

RECURSIVE DeleteAll(_, _)
DeleteAll(shs, world) ==
    IF shs = <<>> THEN world
    ELSE DeleteAll(Tail(shs), ShapeDtor(world, Head(shs)))

(* Variant of clearShapes for the sensitivity runs:                        *)
(* the deletions without shapes.clear().                                   *)
clearShapesKeepList(s) == [s EXCEPT !.world = DeleteAll(s.shapes, s.world)]

(* clearShapes(): deletes every shape, then empties the list *)
clearShapes(s) ==
    [s EXCEPT !.world = DeleteAll(s.shapes, s.world), !.shapes = <<>>]

(* i / d.0f for an int i: the int is converted to float, then divided *)
IntOver(i, d) == FDivInt(IntToFloat(i), d)

(* glm::radians(degrees): degrees * float(pi / 180) *)
RadiansPerDegree == [m |-> 9370165, e |-> -29]

radians(degrees) == FMul(degrees, RadiansPerDegree)

(* the 0.49f of createShape *)
KindThreshold == IntOver(49, 100)

(* createShape(): ten draws, in this order: w, h, x, y, r, g, b, a, angle *)
(* and the one that chooses the kind.  Skip(s.generator, k) is the value  *)
(* of the k-th draw.                                                       *)

(* from float r = ... on: the colour, the angle, the kind, the push_back *)
createShapePlaced(s, w, h, x, y) ==
    [PushShape(s,
               IF FLess(KindThreshold,
                        randomFloat(FZero, FOne, Skip(s.generator, 10)))
               THEN "Triangle" ELSE "Rectangle",
               x, y, w, h,
               radians(randomFloat(FZero, IntToFloat(360), Skip(s.generator, 9))),
               << randomFloat(FZero, FOne, Skip(s.generator, 5)),
                  randomFloat(FZero, FOne, Skip(s.generator, 6)),
                  randomFloat(FZero, FOne, Skip(s.generator, 7)),
                  randomFloat(FZero, FOne, Skip(s.generator, 8)) >>,
               TRUE)
        EXCEPT !.generator = Skip(s.generator, 10)]

(* from float x = ... on *)
createShapeSized(s, w, h) ==
    createShapePlaced(s, w, h,
        randomFloat(FAdd(IntOver(s.tWidth, 8), w),
                    FSub(FSub(IntToFloat(s.screenWidth), IntOver(s.tWidth, 4)), w),
                    Skip(s.generator, 3)),
        randomFloat(FAdd(IntOver(s.tHeight, 8), h),
                    FSub(FSub(IntToFloat(s.screenHeight), IntOver(s.tHeight, 4)), h),
                    Skip(s.generator, 4)))

createShape(s) ==
    createShapeSized(s,
        randomFloat(IntOver(s.tWidth, 5), IntToFloat(s.tWidth),
                    Skip(s.generator, 1)),
        randomFloat(IntOver(s.tHeight, 5), IntToFloat(s.tHeight),
                    Skip(s.generator, 2)))

(* (int)(n / 5.0f): n is converted to float, divided in float, and the    *)
(* quotient truncated towards zero                                         *)
FifthTruncated(n) == FloatToInt(IntOver(n, 5))

(* glm::vec4(1.0f, 0.0f, 0.0f, 1.0f) *)
Red == << FOne, FZero, FZero, FOne >>

(* createShapes(width, height), statement by statement.                   *)

(* tWidth = (width > height) ? height / 5.0f : width / 5.0f;              *)
(* tHeight = tWidth;                                                       *)
createShapesSize(width, height, s) ==
    [s EXCEPT !.tWidth  = FifthTruncated(IF width > height THEN height ELSE width),
              !.tHeight = FifthTruncated(IF width > height THEN height ELSE width)]

(* the k-th shapes.push_back(new Rectangle(...)) of createShapes: the     *)
(* top, bottom, left and right border                                      *)
borderWall(k, width, height, s) ==
    IF k = 1
    THEN PushShape(s, "Rectangle", IntOver(width, 2), IntOver(s.tHeight, 8),
                   IntToFloat(width), IntOver(s.tHeight, 4), radians(FZero),
                   Red, FALSE)
    ELSE IF k = 2
    THEN PushShape(s, "Rectangle", IntOver(width, 2),
                   FSub(IntToFloat(height), IntOver(s.tHeight, 8)),
                   IntToFloat(width), IntOver(s.tHeight, 4), radians(FZero),
                   Red, FALSE)
    ELSE IF k = 3
    THEN PushShape(s, "Rectangle", IntOver(s.tWidth, 8), IntOver(height, 2),
                   IntOver(s.tWidth, 4), IntToFloat(height), radians(FZero),
                   Red, FALSE)
    ELSE PushShape(s, "Rectangle",
                   FSub(IntToFloat(width), IntOver(s.tWidth, 8)),
                   IntOver(height, 2),
                   IntOver(s.tWidth, 4), IntToFloat(height), radians(FZero),
                   Red, FALSE)

(* statement pc of createShapes: 1 is the assignment, 2..5 the walls *)
createShapesStatement(pc, width, height, s) ==
    IF pc = 1 THEN createShapesSize(width, height, s)
    ELSE borderWall(pc - 1, width, height, s)

(* createShapes is declared float and has no return statement.  Built     *)
(* with g++ -O2 or -O3, control that leaves it through the closing brace  *)
(* arrives at the operand width / 5.0f of the assignment again and the    *)
(* statements repeat without end.  The comparison width > height is not   *)
(* evaluated again: tWidth = width / 5.0f whatever height is.             *)
createShapesResumedSize(width, s) ==
    [s EXCEPT !.tWidth  = FifthTruncated(width),
              !.tHeight = FifthTruncated(width)]

(* statement pc of a repeated round: 1 is the assignment, 2..5 the walls *)
createShapesResumedStatement(pc, width, height, s) ==
    IF pc = 1 THEN createShapesResumedSize(width, s)
    ELSE borderWall(pc - 1, width, height, s)

(* In a repeated round the register of height holds the bit pattern of    *)
(* the float computed last in the round before, height / 2.0f.            *)
ResumedHeight(height) == FloatBits(IntOver(height, 2))

(* createShapes(width, height) up to its closing brace *)
createShapes(width, height, s) ==
    createShapesStatement(5, width, height,
      createShapesStatement(4, width, height,
        createShapesStatement(3, width, height,
          createShapesStatement(2, width, height,
            createShapesStatement(1, width, height, s)))))

-----------------------------------------------------------------------------
(* Shader program creation.  What the GL driver answers is an input:      *)
(* gl.vs and gl.fs are [shader, compiled, infoLen] for the two shaders,   *)
(* gl.program is the name glCreateProgram returns (0: none) and gl.linked *)
(* the link status.                                                       *)

loadShader(o) ==
    IF o.shader # 0
    THEN IF ~o.compiled
         THEN (IF o.infoLen # 0 THEN 0 ELSE o.shader)
         ELSE o.shader
    ELSE 0

createProgram(gl) ==
    IF loadShader(gl.vs) = 0 THEN 0
    ELSE IF loadShader(gl.fs) = 0 THEN 0
    ELSE IF gl.program # 0
         THEN (IF ~gl.linked THEN 0 ELSE gl.program)
         ELSE 0

-----------------------------------------------------------------------------
(* initGraphics(width, height).  The result is the globals afterwards.    *)

(* from glViewport to the end: reached with a program *)
initScene(width, height, s) ==
    createShapes(width, height,
                 [s EXCEPT !.glClearColor = << IntOver(1, 10), IntOver(1, 10),
                                               IntOver(4, 5), FOne >>])

(* after program = createProgram(...) *)
initWithProgram(width, height, s) ==
    IF s.program = 0 THEN s ELSE initScene(width, height, s)

(* Variant of setScreen for the sensitivity runs:                          *)
(* the screen size stored only once the program exists.                    *)
setScreenLate(width, height, gl, s) ==
    IF createProgram(gl) = 0 THEN [s EXCEPT !.program = 0]
    ELSE [s EXCEPT !.screenWidth = width, !.screenHeight = height,
                   !.program = createProgram(gl)]

(* screenWidth = width; screenHeight = height; program = createProgram() *)
setScreen(width, height, gl, s) ==
    [s EXCEPT !.screenWidth = width, !.screenHeight = height,
              !.program = createProgram(gl)]

initGraphics(width, height, gl, s) ==
    initWithProgram(width, height, setScreen(width, height, gl, clearShapes(s)))

-----------------------------------------------------------------------------
(* update(time) *)

(* if (c > 1.0f) c = 1.0f; else if (c < 0.0f) c = 0.0f; *)
Clamp(c) ==
    IF FLess(FOne, c) THEN FOne ELSE IF FLess(c, FZero) THEN FZero ELSE c

(* the 0.001f of the colour drift *)
Drift == IntOver(1, 1000)

(* Variant of worldStep for the sensitivity runs:                          *)
(* an advance by the frame interval instead of step.                       *)
worldStepVariable(log, deltaTime) ==
    Append(log, [timeStep |-> deltaTime, velocityIterations |-> 8,
                 positionIterations |-> 3])

(* world.Step(step, 8, 3): appended to the list of this call's advances *)
worldStep(log, deltaTime) ==
    Append(log, [timeStep |-> step, velocityIterations |-> 8,
                 positionIterations |-> 3])

(* Variant of SpawnDue for the sensitivity runs:                           *)
(* the test without spawnTime.                                             *)
SpawnDueNoBase(newTime, spawnTime) == FLess(SpawnInterval, newTime)

(* newTime - spawnTime > 2.0f *)
SpawnDue(newTime, spawnTime) == FLess(SpawnInterval, FSub(newTime, spawnTime))

(* The state of a running update call: l.g are the globals, l.log this  *)
(* call's world.Step calls, l.spawned its createShape calls.             *)

(* clearR += randomFloat(-0.001f, 0.001f)(generator), then the clamp; the *)
(* same for clearG and clearB; glClearColor(clearR, clearG, clearB, 1.0f) *)
stirColour(g, g1, g2, g3) ==
    [g EXCEPT !.clearR = Clamp(FAdd(g.clearR, randomFloat(FNeg(Drift), Drift, g1))),
              !.clearG = Clamp(FAdd(g.clearG, randomFloat(FNeg(Drift), Drift, g2))),
              !.clearB = Clamp(FAdd(g.clearB, randomFloat(FNeg(Drift), Drift, g3))),
              !.generator = g3]

setClearColour(g) ==
    [g EXCEPT !.glClearColor = <<g.clearR, g.clearG, g.clearB, FOne>>]

(* accumulator -= step *)
consume(g) == [g EXCEPT !.accumulator = FSub(g.accumulator, step)]

(* Variant of spawn for the sensitivity runs:                              *)
(* a spawn that clears the list first.                                     *)
spawnClearing(l, newTime) ==
    IF SpawnDue(newTime, l.g.spawnTime)
    THEN [l EXCEPT !.g = [createShape(clearShapes(l.g))
                             EXCEPT !.spawnTime = newTime],
                   !.spawned = l.spawned + 1]
    ELSE l

(* if (newTime - spawnTime > 2.0f) { createShape(); spawnTime = newTime; } *)
spawn(l, newTime) ==
    IF SpawnDue(newTime, l.g.spawnTime)
    THEN [l EXCEPT !.g = [createShape(l.g) EXCEPT !.spawnTime = newTime],
                   !.spawned = l.spawned + 1]
    ELSE l

(* one pass of the while loop *)
updateBody(l, newTime, deltaTime) ==
    spawn([l EXCEPT
              !.g = consume(setClearColour(
                        stirColour(l.g, NextRand(l.g.generator),
                                   NextRand(NextRand(l.g.generator)),
                                   NextRand(NextRand(NextRand(l.g.generator)))))),
              !.log = worldStep(l.log, deltaTime)],
          newTime)

(* while (accumulator >= step) *)
RECURSIVE updateLoop(_, _, _)
updateLoop(l, newTime, deltaTime) ==
    IF ~FGeq(l.g.accumulator, step) THEN l
    ELSE updateLoop(updateBody(l, newTime, deltaTime), newTime, deltaTime)

(* currentTime = newTime; accumulator += deltaTime; then the loop *)
updateFrom(newTime, deltaTime, s) ==
    [updateLoop([g |-> [s EXCEPT !.currentTime = newTime,
                                 !.accumulator = FAdd(s.accumulator, deltaTime)],
                 log |-> <<>>, spawned |-> 0],
                newTime, deltaTime)
        EXCEPT !.log = [steps |-> @, newTime |-> newTime, deltaTime |-> deltaTime]]

(* float deltaTime = std::min(newTime - currentTime, 0.25f) *)
frameTime(newTime, currentTime) ==
    FMin(FSub(newTime, currentTime), MaxFrameTime)

updateAt(newTime, s) ==
    updateFrom(newTime, frameTime(newTime, s.currentTime), s)

(* update(time): the result holds the globals afterwards (g), the number  *)
(* of createShape calls (spawned) and, in log, the world.Step calls       *)
(* (steps) and the locals newTime and deltaTime                           *)
update(time, s) == updateAt(MillisToSeconds(time), s)

-----------------------------------------------------------------------------
(* touch(x, y): logs the point; the spawning code is commented out *)

(* Variant of touch for the sensitivity runs:                              *)
(* the commented-out code of touch, spawning a shape.                      *)
touchSpawns(x, y, s) ==
    PushShape(s, "Rectangle", IntToFloat(x), IntToFloat(y),
              IntOver(s.tWidth, 5), IntOver(s.tHeight, 5),
              FZero, <<FZero, FZero, FZero, FZero>>, TRUE)

touch(x, y, s) == s

-----------------------------------------------------------------------------
(* draw(): clears, then draws every shape of the list in order.  The      *)
(* result is what the frame holds: the clear colour and the draw calls.   *)

ShapeDraw(shape) ==
    [body |-> shape.body, color |-> shape.color, count |-> shape.numVertices]

draw(s) ==
    [clear   |-> s.glClearColor,
     program |-> s.program,
     draws   |-> [i \in 1..Len(s.shapes) |-> ShapeDraw(s.shapes[i])]]

(* Variant of drawAfter for the sensitivity runs:                          *)
(* draw() of the list as it was before update.                             *)
drawBefore(u, s) == [u |-> u, frame |-> draw(s)]

(* draw() after update(time): u is what update returned *)
drawAfter(u, s) == [u |-> u, frame |-> draw(u.g)]

(* Java_fi_enko_antroit_AntRoitLib_step: update(time); draw(); *)
stepFrame(time, s) == drawAfter(update(time, s), s)

-----------------------------------------------------------------------------
(* The state *)

VARIABLES
    shapes,        \* std::vector<Shape*> shapes
    world,         \* b2World world: its live bodies
    screenWidth, screenHeight, tWidth, tHeight,
    program,       \* GLuint program
    glClearColor,  \* the GL clear colour
    generator,     \* std::default_random_engine generator
    currentTime, accumulator, spawnTime,
    clearR, clearG, clearB,
    frame,         \* what the last draw() put in the frame
    halted,        \* init does not return any more (see below)
    runOn,         \* control has left createShapes through its end: the
                   \* statement it is at (pc, 0: does not apply), the
                   \* arguments it sees, the statements run since
    call,          \* history: the last bridge call, with update's locals
    timestamps,    \* history: the time arguments of all step calls so far
    sinceInit      \* history: a successful init has run and no init since;
                   \*          the createShape calls since then

vars == << shapes, world, screenWidth, screenHeight, tWidth, tHeight, program,
           glClearColor, generator, currentTime, accumulator, spawnTime,
           clearR, clearG, clearB, frame, halted, runOn, call, timestamps,
           sinceInit >>

(* The globals as one record, as the operators above take them *)
Globals ==
    [shapes |-> shapes, world |-> world,
     screenWidth |-> screenWidth, screenHeight |-> screenHeight,
     tWidth |-> tWidth, tHeight |-> tHeight,
     program |-> program, glClearColor |-> glClearColor,
     generator |-> generator,
     currentTime |-> currentTime, accumulator |-> accumulator,
     spawnTime |-> spawnTime,
     clearR |-> clearR, clearG |-> clearG, clearB |-> clearB]

SetGlobals(g) ==
    /\ shapes' = g.shapes
    /\ world' = g.world
    /\ screenWidth' = g.screenWidth
    /\ screenHeight' = g.screenHeight
    /\ tWidth' = g.tWidth
    /\ tHeight' = g.tHeight
    /\ program' = g.program
    /\ glClearColor' = g.glClearColor
    /\ generator' = g.generator
    /\ currentTime' = g.currentTime
    /\ accumulator' = g.accumulator
    /\ spawnTime' = g.spawnTime
    /\ clearR' = g.clearR
    /\ clearG' = g.clearG
    /\ clearB' = g.clearB

-----------------------------------------------------------------------------
(* Bounds and inputs *)

(* bridge calls in a run *)
MaxCalls == 3

(* statements executed after control ran past the end of createShapes *)
MaxRunOn == 8

(* engine states after seeding from std::random_device *)
Seeds == {1, 64}

(* time arguments of step, in milliseconds: frames of 17 ms, a multiple   *)
(* of 50 ms, gaps above 0.25 s and above 2 s, and values at and beyond    *)
(* the range of int                                                       *)
Times ==
    { JLong(0, 0), JLong(0, 17), JLong(0, 50), JLong(0, 300), JLong(0, 2017),
      JLong(0, 4100), JLong(0, 2147483647), JLong(1, 1000), JLong(2, 2300) }

(* (width, height) arguments of init *)
Dims == { <<480, 800>>, <<800, 480>> }

(* what the register of width holds once control has run past the end of *)
(* createShapes: the low half of an address, another one in every run of  *)
(* the program and the same through all rounds of one run.  Any 32-bit    *)
(* value can occur; these are values of runs of the -O2 and -O3 builds,   *)
(* negative and positive, below and above the height of the round.        *)
GarbageWidths == { -1894086912, -519874816, 336652032, 1629456128 }

(* (x, y) arguments of touch *)
TouchPoints == { <<0, 0>>, <<240, 400>> }

(* answers of the GL driver to createProgram *)
ShaderOk(n)       == [shader |-> n, compiled |-> TRUE, infoLen |-> 0]
ShaderNotCreated  == [shader |-> 0, compiled |-> FALSE, infoLen |-> 0]
ShaderRejected(n) == [shader |-> n, compiled |-> FALSE, infoLen |-> 80]
ShaderSilent(n)   == [shader |-> n, compiled |-> FALSE, infoLen |-> 0]

GLOutcomes ==
    { [vs |-> ShaderOk(1), fs |-> ShaderOk(2), program |-> 3, linked |-> TRUE],
      [vs |-> ShaderNotCreated, fs |-> ShaderOk(2), program |-> 3, linked |-> TRUE],
      [vs |-> ShaderOk(1), fs |-> ShaderRejected(2), program |-> 3, linked |-> TRUE],
      [vs |-> ShaderOk(1), fs |-> ShaderOk(2), program |-> 0, linked |-> FALSE],
      [vs |-> ShaderSilent(1), fs |-> ShaderOk(2), program |-> 3, linked |-> FALSE] }

-----------------------------------------------------------------------------
(* Initial state: the globals as their initializers leave them *)

Init ==
    /\ shapes = <<>>
    /\ world = {}
    /\ screenWidth = 0
    /\ screenHeight = 0
    /\ tWidth = 0
    /\ tHeight = 0
    /\ program = 0
    /\ glClearColor = <<FZero, FZero, FZero, FZero>>
    /\ generator \in Seeds
    /\ currentTime = FZero
    /\ accumulator = FZero
    /\ spawnTime = FZero
    /\ clearR = IntOver(1, 5)
    /\ clearG = IntOver(3, 10)
    /\ clearB = IntOver(1, 2)
    /\ frame = [clear |-> <<FZero, FZero, FZero, FZero>>, program |-> 0,
                draws |-> <<>>]
    /\ halted = FALSE
    /\ runOn = [pc |-> 0, width |-> 0, height |-> 0, n |-> 0]
    /\ call = [op |-> "none", n |-> 0]
    /\ timestamps = <<>>
    /\ sinceInit = [ok |-> FALSE, spawns |-> 0]

-----------------------------------------------------------------------------
(* The bridge functions *)

(* The state after an init call that left the globals g.  createShapes is *)
(* declared to return float and has no return statement, so a call that   *)
(* reaches its end has undefined behaviour.  With the four walls created, *)
(* a build returns to initGraphics (g++ -O0), traps there (-O1, -Os), or  *)
(* runs on into the statements of createShapes again, with whatever the   *)
(* registers of width and height hold, and never returns (-O2, -O3).      *)
initCall(d, g, end) ==
    /\ SetGlobals(g)
    /\ halted' = (g.program # 0 /\ end # "returns")
    /\ runOn' = [pc |-> IF g.program # 0 /\ end = "runs on" THEN 1 ELSE 0,
                 width |-> 0,
                 height |-> IF g.program # 0 /\ end = "runs on" THEN d[2] ELSE 0,
                 n |-> 0]
    /\ call' = [op |-> "init", n |-> call.n + 1,
                width |-> d[1], height |-> d[2],
                screenBefore |-> <<screenWidth, screenHeight>>,
                shapesBefore |-> shapes, worldBefore |-> world]
    /\ sinceInit' = [ok |-> g.program # 0 /\ end = "returns", spawns |-> 0]
    /\ UNCHANGED << frame, timestamps >>

(* init(width, height) *)
Java_fi_enko_antroit_AntRoitLib_init ==
    /\ ~halted
    /\ call.n < MaxCalls
    /\ \E d \in Dims, gl \in GLOutcomes, end \in {"returns", "traps", "runs on"} :
          initCall(d, initGraphics(d[1], d[2], gl, Globals), end)

(* One more statement of createShapes, run by an init call that left      *)
(* createShapes through its end.                                           *)
runOnStatement(width, height, g) ==
    /\ SetGlobals(g)
    /\ runOn' = [pc |-> IF runOn.pc = 5 THEN 1 ELSE runOn.pc + 1,
                 width |-> width, height |-> height, n |-> runOn.n + 1]
    /\ UNCHANGED << frame, halted, call, timestamps, sinceInit >>

(* The first round takes what the register of width holds; every round    *)
(* starts with the assignment and the new content of the register of      *)
(* height, the four walls follow with both.                                *)
createShapesRunsOn ==
    /\ runOn.pc # 0
    /\ runOn.n < MaxRunOn
    /\ \/ /\ runOn.pc = 1
          /\ runOn.n = 0
          /\ \E width \in GarbageWidths :
                runOnStatement(width, ResumedHeight(runOn.height),
                    createShapesResumedStatement(1, width,
                        ResumedHeight(runOn.height), Globals))
       \/ /\ runOn.pc = 1
          /\ runOn.n # 0
          /\ runOnStatement(runOn.width, ResumedHeight(runOn.height),
                createShapesResumedStatement(1, runOn.width,
                    ResumedHeight(runOn.height), Globals))
       \/ /\ runOn.pc # 1
          /\ runOnStatement(runOn.width, runOn.height,
                createShapesResumedStatement(runOn.pc, runOn.width,
                                             runOn.height, Globals))

(* The state after a step call: f is what stepFrame returned *)
stepCall(time, f) ==
    /\ SetGlobals(f.u.g)
    /\ frame' = f.frame
    /\ call' = [op |-> "step", n |-> call.n + 1, time |-> time,
                newTime |-> f.u.log.newTime, deltaTime |-> f.u.log.deltaTime,
                accBefore |-> accumulator, spawnBefore |-> spawnTime,
                shapesBefore |-> shapes,
                worldSteps |-> f.u.log.steps, advances |-> Len(f.u.log.steps),
                spawned |-> f.u.spawned]
    /\ timestamps' = Append(timestamps, time)
    /\ sinceInit' = [sinceInit EXCEPT !.spawns = @ + f.u.spawned]
    /\ UNCHANGED << halted, runOn >>

(* step(time): the jlong is narrowed to the int update takes *)
Java_fi_enko_antroit_AntRoitLib_step ==
    /\ ~halted
    /\ call.n < MaxCalls
    /\ \E time \in Times :
          stepCall(time, stepFrame(JLongToInt(time), Globals))

(* The state after a touch call that left the globals g *)
touchCall(p, g) ==
    /\ SetGlobals(g)
    /\ call' = [op |-> "touch", n |-> call.n + 1, x |-> p[1], y |-> p[2],
                shapesBefore |-> shapes]
    /\ UNCHANGED << frame, halted, runOn, timestamps, sinceInit >>

(* touch(x, y) *)
Java_fi_enko_antroit_AntRoitLib_touch ==
    /\ ~halted
    /\ call.n < MaxCalls
    /\ \E p \in TouchPoints : touchCall(p, touch(p[1], p[2], Globals))

Next ==
    \/ Java_fi_enko_antroit_AntRoitLib_init
    \/ Java_fi_enko_antroit_AntRoitLib_step
    \/ Java_fi_enko_antroit_AntRoitLib_touch
    \/ createShapesRunsOn

Spec == Init /\ [][Next]_vars

-----------------------------------------------------------------------------
(* Notions the properties below are stated in *)

(* the float nearest to 1/60 *)
OneSixtieth == [m |-> 8947849, e |-> -29]

(* a < b for exact values m * 2^e with |m| < 2^29 *)
DyLess(a, b) ==
    IF a.m = 0 THEN b.m > 0
    ELSE IF b.m = 0 THEN a.m < 0
    ELSE IF a.e >= b.e
         THEN (IF BitLen(Abs(a.m)) + (a.e - b.e) > 30 THEN a.m < 0
               ELSE a.m * 2^(a.e - b.e) < b.m)
         ELSE (IF BitLen(Abs(b.m)) + (b.e - a.e) > 30 THEN b.m > 0
               ELSE a.m < b.m * 2^(b.e - a.e))

(* n * x, exactly *)
Multiple(n, x) == [m |-> n * x.m, e |-> x.e]

IsPrefix(p, q) ==
    Len(p) <= Len(q) /\ \A i \in 1..Len(p) : p[i] = q[i]

NonDecreasing(ts) ==
    \A i \in 1..(Len(ts) - 1) : JLongLeq(ts[i], ts[i + 1])

StaticRectangle(sh) ==
    /\ sh.type = "Rectangle"
    /\ ~sh.dynamic
    /\ \E b \in world : b.id = sh.body /\ b.type = "b2_staticBody"

(* The four borders of the screen, y growing downwards: a rectangle      *)
(* centred at (x, y) covers x - width/2 .. x + width/2 and               *)
(* y - height/2 .. y + height/2.                                         *)
LeftEdge(sh)   == FSub(sh.x, FDivInt(sh.width, 2))
RightEdge(sh)  == FAdd(sh.x, FDivInt(sh.width, 2))
TopEdge(sh)    == FSub(sh.y, FDivInt(sh.height, 2))
BottomEdge(sh) == FAdd(sh.y, FDivInt(sh.height, 2))

IsTopWall(sh) ==
    /\ LeftEdge(sh) = FZero /\ RightEdge(sh) = IntToFloat(screenWidth)
    /\ TopEdge(sh) = FZero
IsBottomWall(sh) ==
    /\ LeftEdge(sh) = FZero /\ RightEdge(sh) = IntToFloat(screenWidth)
    /\ BottomEdge(sh) = IntToFloat(screenHeight)
IsLeftWall(sh) ==
    /\ TopEdge(sh) = FZero /\ BottomEdge(sh) = IntToFloat(screenHeight)
    /\ LeftEdge(sh) = FZero
IsRightWall(sh) ==
    /\ TopEdge(sh) = FZero /\ BottomEdge(sh) = IntToFloat(screenHeight)
    /\ RightEdge(sh) = IntToFloat(screenWidth)

FourWallsFirst ==
    /\ Len(shapes) >= 4
    /\ \A i \in 1..4 : StaticRectangle(shapes[i])
    /\ IsTopWall(shapes[1])
    /\ IsBottomWall(shapes[2])
    /\ IsLeftWall(shapes[3])
    /\ IsRightWall(shapes[4])

-----------------------------------------------------------------------------
(* C1: every physics advance of a step call, whatever its timestamp and   *)
(* the interval since the previous call, is world.Step with the one       *)
(* increment 1/60 s (as a float); the frame interval never enters it.     *)
C1_FixedIncrement ==
    call.op = "step" =>
        \A i \in 1..Len(call.worldSteps) :
            call.worldSteps[i].timeStep = OneSixtieth

(* a call with several advances whose frame interval was not 1/60 s *)
C1_Witness ==
    /\ call.op = "step"
    /\ call.advances >= 2
    /\ call.deltaTime # OneSixtieth
    /\ Len(call.worldSteps) = call.advances

(* C2: after an init that created its shader program and returned, the    *)
(* list holds exactly four shapes, the static rectangles along the top,   *)
(* bottom, left and right border, and no dynamic shape, whatever the list *)
(* held before.                                                           *)
C2_InitLeavesFourWalls ==
    (call.op = "init" /\ program # 0 /\ ~halted) =>
        /\ Len(shapes) = 4
        /\ FourWallsFirst
        /\ \A i \in 1..Len(shapes) : ~shapes[i].dynamic

(* such an init, called when walls and a dynamic shape existed *)
C2_Witness ==
    /\ call.op = "init" /\ program # 0 /\ ~halted
    /\ Len(call.shapesBefore) > 4
    /\ \E i \in 1..Len(call.shapesBefore) : call.shapesBefore[i].dynamic

(* C3: a step call updates, then draws: the frame holds one draw call per *)
(* shape of the list as update left it, in list order, a shape spawned    *)
(* during the call included.                                              *)
C3_StepDrawsUpdatedList ==
    call.op = "step" =>
        /\ Len(frame.draws) = Len(shapes)
        /\ \A i \in 1..Len(shapes) :
              /\ frame.draws[i].body = shapes[i].body
              /\ frame.draws[i].count = shapes[i].numVertices
        /\ \A i, j \in 1..Len(frame.draws) :
              frame.draws[i].body = frame.draws[j].body => i = j

(* a step call that spawned a shape next to the walls and drew it *)
C3_Witness ==
    /\ call.op = "step"
    /\ call.spawned = 1
    /\ Len(call.shapesBefore) >= 4
    /\ Len(frame.draws) = Len(call.shapesBefore) + 1
    /\ frame.draws[Len(frame.draws)].body = shapes[Len(shapes)].body

(* C4: a touch call leaves the shape list, the world, currentTime,        *)
(* accumulator, spawnTime and the clear colour as they were.              *)
C4_TouchChangesNothing ==
    [][ (call'.op = "touch" /\ call'.n # call.n) =>
            UNCHANGED << shapes, world, currentTime, accumulator, spawnTime,
                         clearR, clearG, clearB, glClearColor >> ]_vars

(* a touch call made when shapes exist and time has been accumulated *)
C4_Witness ==
    /\ call.op = "touch"
    /\ Len(shapes) > 4
    /\ shapes = call.shapesBefore
    /\ accumulator # FZero
    /\ glClearColor # <<FZero, FZero, FZero, FZero>>

(* C5: after every step call of a run whose timestamps never decrease,  *)
(* 0 <= accumulator < step.  (The claim adds a count of the advances,     *)
(* stated next.)                                                          *)
C5_AccumulatorInRange ==
    (call.op = "step" /\ NonDecreasing(timestamps)) =>
        /\ ~FLess(accumulator, FZero)
        /\ FLess(accumulator, step)

(* The count C5 gives for a call of such a run: floor(a / step) advances, *)
(* a being the accumulator before the call plus the capped frame          *)
(* interval, that is advances * step <= a < (advances + 1) * step, read   *)
(* on the values the program holds.  The loop subtracts with rounding, so *)
(* this fails by one for some a (0.25 among them) even when a >= 0.       *)
C5_AdvancesAreFloor ==
    (call.op = "step" /\ NonDecreasing(timestamps)) =>
        /\ ~DyLess(FAdd(call.accBefore, call.deltaTime),
                   Multiple(call.advances, step))
        /\ DyLess(FAdd(call.accBefore, call.deltaTime),
                  Multiple(call.advances + 1, step))

(* C6: a step call spawns a shape if and only if it makes at least one    *)
(* advance and time/1000 - spawnTime > 2 s then; it spawns at most one,   *)
(* sets spawnTime to time/1000, and so the new spawn's timestamp exceeds  *)
(* the previous one by more than 2 s.                                     *)
C6_SpawnRule ==
    call.op = "step" =>
        /\ call.spawned <= 1
        /\ call.spawned = 1 <=>
              (call.advances >= 1
               /\ FLess(IntToFloat(2), FSub(call.newTime, call.spawnBefore)))
        /\ call.spawned = 1 =>
              /\ spawnTime = call.newTime
              /\ FLess(IntToFloat(2), FSub(spawnTime, call.spawnBefore))
              /\ Len(shapes) = Len(call.shapesBefore) + 1
              /\ shapes[Len(shapes)].dynamic
        /\ call.spawned = 0 =>
              /\ spawnTime = call.spawnBefore
              /\ shapes = call.shapesBefore

(* a second spawn: the call spawned and a spawn had set spawnTime before *)
C6_Witness ==
    /\ call.op = "step"
    /\ call.spawned = 1
    /\ call.spawnBefore # FZero
    /\ \E i \in 1..Len(call.shapesBefore) : call.shapesBefore[i].dynamic

(* C7: from a successful init until the next init, the four walls stay    *)
(* the first four shapes, step and touch calls leave the shapes that      *)
(* existed in place (step only appends), and the list holds four shapes   *)
(* plus one dynamic shape per spawn since that init.                      *)
C7_WallsStayFirst ==
    sinceInit.ok =>
        /\ FourWallsFirst
        /\ Len(shapes) = 4 + sinceInit.spawns
        /\ \A i \in 5..Len(shapes) : shapes[i].dynamic
        /\ call.op \in {"step", "touch"} => IsPrefix(call.shapesBefore, shapes)

(* two spawns since the init, the second one by the last call *)
C7_Witness ==
    /\ sinceInit.ok
    /\ sinceInit.spawns = 2
    /\ call.op = "step" /\ call.spawned = 1
    /\ Len(shapes) = 6

(* C8: the live bodies of the world and the shapes of the list correspond *)
(* one to one: each shape's body is live and of the shape's kind, no two  *)
(* shapes share a body, and the world holds no other body.                *)
C8_BodiesMatchShapes ==
    /\ Cardinality(world) = Len(shapes)
    /\ \A i \in 1..Len(shapes) :
          \E b \in world :
              /\ b.id = shapes[i].body
              /\ (b.type = "b2_dynamicBody") = shapes[i].dynamic
    /\ \A i, j \in 1..Len(shapes) :
          shapes[i].body = shapes[j].body => i = j

(* an init that deleted walls and a dynamic shape and built new walls *)
C8_Witness ==
    /\ call.op = "init"
    /\ Len(call.shapesBefore) > 4
    /\ Cardinality(call.worldBefore) > 4
    /\ Cardinality(world) = 4

(* C9: a step call that starts with accumulator < step returns after at   *)
(* most 15 advances, however far its timestamp is from the previous one.  *)
C9_AtMostFifteenAdvances ==
    (call.op = "step" /\ FLess(call.accBefore, step)) =>
        call.advances <= 15

(* the first step call of a run, after an init, 2147483 s after time 0 *)
C9_Witness ==
    /\ call.op = "step"
    /\ Len(timestamps) = 1
    /\ sinceInit.ok
    /\ call.time = JLong(0, 2147483647)
    /\ call.advances = 15

(* C10: an init whose program creation fails leaves the list empty and    *)
(* the world without bodies, creates no wall, and has set screenWidth and *)
(* screenHeight to its arguments.                                         *)
C10_FailedInit ==
    (call.op = "init" /\ program = 0) =>
        /\ shapes = <<>>
        /\ world = {}
        /\ screenWidth = call.width
        /\ screenHeight = call.height

(* a failing init called with shapes alive and with new dimensions *)
C10_Witness ==
    /\ call.op = "init" /\ program = 0
    /\ Len(call.shapesBefore) > 4
    /\ call.worldBefore # {}
    /\ call.screenBefore # <<call.width, call.height>>
    /\ call.screenBefore # <<0, 0>>

=============================================================================
